---- MODULE Spec2Model ----
(***************************************************************************)
(* Model of the content generation service (AIService) of the marketing    *)
(* backend: prompt construction, the provider calls of generateContent,    *)
(* generateMultipleVariations, improvContent and generateHashtags, the     *)
(* output parser and the confidence scorer.                                *)
(*                                                                         *)
(* A text is a sequence of one-character strings.  A prompt is a sequence  *)
(* of strings: the fixed clauses of the source are single elements, free   *)
(* text is spelled character by character.  A JavaScript number is a       *)
(* record [nan, v]: v counts units of 1/Scale, nan marks NaN.              *)
(***************************************************************************)
EXTENDS Integers, Sequences, FiniteSets, Bags, TLC

(* ------------------------------ bounds -------------------------------- *)

\* longest provider text enumerated exhaustively
MaxLen == 3
\* longest keywords list enumerated exhaustively
MaxKw == 2
\* largest variation count
MaxCount == 3
\* largest hashtag count
MaxTags == 2

(* ------------------------------ numbers ------------------------------- *)

\* units per 1.0 of a confidence value; every quotient taken below is exact
Scale == 60 * 100

Num(v) == [nan |-> FALSE, v |-> v]

NaN == [nan |-> TRUE, v |-> 0]

\* a + b of two numbers
NumAdd(a, b) == IF a.nan \/ b.nan THEN NaN ELSE Num(a.v + b.v)

\* (m / n) * 0.1 for integers m <= n: 0 / 0 is NaN
NumFractionTenth(m, n) == IF n = 0 THEN NaN ELSE Num((m * (Scale \div 10)) \div n)

\* Math.min(a, b): NaN if either argument is NaN
MathMin(a, b) == IF a.nan \/ b.nan THEN NaN ELSE IF a.v <= b.v THEN a ELSE b

\* a * (1 - index * 0.1)
NumDecay(a, index) == IF a.nan THEN NaN ELSE Num((a.v * (10 - index)) \div 10)

(* ------------------------------- texts -------------------------------- *)

Upper == {"A"}

\* the characters String.prototype.trim removes
IsSpace(c) == c \in {" ", "\n"}

RECURSIVE TrimStart(_)
TrimStart(s) ==
    IF s = <<>> THEN s
    ELSE IF IsSpace(Head(s)) THEN TrimStart(Tail(s)) ELSE s

RECURSIVE TrimEnd(_)
TrimEnd(s) ==
    IF s = <<>> THEN s
    ELSE IF IsSpace(s[Len(s)]) THEN TrimEnd(SubSeq(s, 1, Len(s) - 1)) ELSE s

Trim(s) == TrimEnd(TrimStart(s))

\* index of the first occurrence of character c in s, 0 if none
IndexOf(s, c) ==
    IF \E i \in 1..Len(s) : s[i] = c
    THEN CHOOSE i \in 1..Len(s) : s[i] = c /\ \A j \in 1..(i - 1) : s[j] # c
    ELSE 0

\* s.split(sep) for a one-character separator: "" gives [""].  The text is
\* halved and the pieces around the cut are glued, which keeps the
\* evaluation shallow on long texts.
RECURSIVE Split(_, _)
Split(s, sep) ==
    IF Len(s) = 0 THEN <<s>>
    ELSE IF Len(s) = 1 THEN (IF s[1] = sep THEN << <<>>, <<>> >> ELSE <<s>>)
    ELSE LET h == Len(s) \div 2
             l == Split(SubSeq(s, 1, h), sep)
             r == Split(SubSeq(s, h + 1, Len(s)), sep)
         IN  SubSeq(l, 1, Len(l) - 1) \o <<l[Len(l)] \o r[1]>> \o Tail(r)

\* pieces.join(sep)
RECURSIVE Join(_, _)
Join(pieces, sep) ==
    IF pieces = <<>> THEN <<>>
    ELSE IF Len(pieces) = 1 THEN pieces[1]
    ELSE pieces[1] \o sep \o Join(Tail(pieces), sep)

LowerChar(c) == IF c = "A" THEN "a" ELSE c

ToLowerCase(s) == [i \in 1..Len(s) |-> LowerChar(s[i])]

\* s.includes(k)
Includes(s, k) ==
    \E i \in 0..(Len(s) - Len(k)) : SubSeq(s, i + 1, i + Len(k)) = k

\* s.replace(c, ''): with a string pattern only the first occurrence goes
ReplaceFirst(s, c) ==
    LET i == IndexOf(s, c)
    IN  IF i = 0 THEN s ELSE SubSeq(s, 1, i - 1) \o SubSeq(s, i + 1, Len(s))

\* the first n elements of a sequence (slice(0, n))
Take(s, n) == SubSeq(s, 1, IF n < Len(s) THEN n ELSE Len(s))

\* n copies of character c
Rep(c, n) == [i \in 1..n |-> c]

\* all sequences over set S of length at most n
SeqUpTo(S, n) == UNION {[1..k -> S] : k \in 0..n}

(* ------------------------------ requests ------------------------------ *)

ContentTypes == {"campaign", "post", "email", "social"}

Tones == {"professional", "casual", "enthusiastic", "friendly"}

Lengths == {"short", "medium", "long"}

\* an absent optional field of a request
None == "none"

\* GenerateContentRequest; hasKeywords tells an absent keywords field from []
Request(prompt, contentType, tone, length, targetAudience, hasKeywords, keywords) ==
    [prompt |-> prompt, contentType |-> contentType, tone |-> tone,
     length |-> length, targetAudience |-> targetAudience,
     hasKeywords |-> hasKeywords, keywords |-> keywords]

(* --------------------------- prompt builder --------------------------- *)

contentTypeInstructions(contentType) ==
    CASE contentType = "campaign" -> "You are a marketing campaign strategist. Create comprehensive campaign content that drives engagement and conversions."
      [] contentType = "post" -> "You are a social media expert. Create engaging social media posts that capture attention and encourage interaction."
      [] contentType = "email" -> "You are an email marketing specialist. Create compelling email content that drives opens, clicks, and conversions."
      [] contentType = "social" -> "You are a social media content creator. Create shareable content optimized for social media platforms."

toneInstructions(tone) ==
    CASE tone = "professional" -> "Use a professional, authoritative tone."
      [] tone = "casual" -> "Use a casual, conversational tone."
      [] tone = "enthusiastic" -> "Use an enthusiastic, energetic tone."
      [] tone = "friendly" -> "Use a friendly, approachable tone."

lengthInstructions(length) ==
    CASE length = "short" -> "Keep it concise (1-2 sentences)"
      [] length = "medium" -> "Medium length (2-4 sentences)"
      [] length = "long" -> "Comprehensive length (multiple paragraphs)"

\* the audience clause put before the tone clause
buildSystemPromptAudienceFirst(request) ==
    <<contentTypeInstructions(request.contentType)>>
    \o (IF request.targetAudience # <<>>
        THEN <<" Target audience: ">> \o request.targetAudience \o <<".">>
        ELSE <<>>)
    \o (IF request.tone # None THEN <<" ", toneInstructions(request.tone)>> ELSE <<>>)
    \o <<" Provide high-quality, original content that is engaging and relevant.">>

buildSystemPrompt(request) ==
    <<contentTypeInstructions(request.contentType)>>
    \o (IF request.tone # None THEN <<" ", toneInstructions(request.tone)>> ELSE <<>>)
    \o (IF request.targetAudience # <<>>
        THEN <<" Target audience: ">> \o request.targetAudience \o <<".">>
        ELSE <<>>)
    \o <<" Provide high-quality, original content that is engaging and relevant.">>

\* the keyword clause added for every keywords list that is given
buildUserPromptAnyKeywords(request) ==
    <<"Create ", request.contentType, " content based on: ">> \o request.prompt
    \o (IF request.length # None
        THEN <<" Length: ", lengthInstructions(request.length), ".">>
        ELSE <<>>)
    \o (IF request.hasKeywords
        THEN <<" Include these keywords naturally: ">>
             \o Join(request.keywords, <<", ">>) \o <<".">>
        ELSE <<>>)

buildUserPrompt(request) ==
    <<"Create ", request.contentType, " content based on: ">> \o request.prompt
    \o (IF request.length # None
        THEN <<" Length: ", lengthInstructions(request.length), ".">>
        ELSE <<>>)
    \o (IF request.hasKeywords /\ Len(request.keywords) > 0
        THEN <<" Include these keywords naturally: ">>
             \o Join(request.keywords, <<", ">>) \o <<".">>
        ELSE <<>>)

(* ---------------------------- output parser --------------------------- *)

TitleMaxLen == 100

\* lines[0].length < 100 && /^[A-Z]/.test(lines[0]), on the unmodified line
LooksLikeTitle(line) ==
    /\ Len(line) < TitleMaxLen
    /\ line # <<>>
    /\ line[1] \in Upper

\* generatedText.split('\n').filter(line => line.trim().length > 0)
NonBlankLines(generatedText) ==
    SelectSeq(Split(generatedText, "\n"), LAMBDA line : Len(Trim(line)) > 0)

(* -------------------------- confidence scorer ------------------------- *)

\* content.split(' ').length
WordCount(content) == Len(Split(content, " "))

ShortMax == 50

MediumMax == 200

\* the short band read as strictly below its limit
LengthBonusStrict(wordCount, length) ==
    IF length = "short" /\ wordCount < ShortMax THEN Num(Scale \div 10)
    ELSE IF length = "medium" /\ wordCount > ShortMax /\ wordCount <= MediumMax
         THEN Num(Scale \div 10)
    ELSE IF length = "long" /\ wordCount > MediumMax THEN Num(Scale \div 10)
    ELSE Num(0)

LengthBonus(wordCount, length) ==
    IF length = "short" /\ wordCount <= ShortMax THEN Num(Scale \div 10)
    ELSE IF length = "medium" /\ wordCount > ShortMax /\ wordCount <= MediumMax
         THEN Num(Scale \div 10)
    ELSE IF length = "long" /\ wordCount > MediumMax THEN Num(Scale \div 10)
    ELSE Num(0)

\* request.keywords.filter(k => content.toLowerCase().includes(k.toLowerCase())).length
KeywordMatches(content, keywords) ==
    Len(SelectSeq(keywords,
                  LAMBDA keyword : Includes(ToLowerCase(content), ToLowerCase(keyword))))

\* if (request.keywords) confidence += (matches / keywords.length) * 0.1
KeywordBonus(content, request) ==
    IF request.hasKeywords
    THEN NumFractionTenth(KeywordMatches(content, request.keywords), Len(request.keywords))
    ELSE Num(0)

calculateConfidence(content, request) ==
    MathMin(NumAdd(NumAdd(Num((8 * Scale) \div 10),
                          LengthBonus(WordCount(content), request.length)),
                   KeywordBonus(content, request)),
            Num(Scale))

\* ContentSuggestion: title is meaningful only when hasTitle
Suggestion(content, hasTitle, title, confidence) ==
    [content |-> content, hasTitle |-> hasTitle, title |-> title,
     confidence |-> confidence]

parseGeneratedContent(generatedText, request) ==
    LET lines == NonBlankLines(generatedText)
    IN  IF Len(lines) > 1 /\ LooksLikeTitle(lines[1])
        THEN LET content == Trim(Join(Tail(lines), <<"\n">>))
             IN  Suggestion(content, TRUE, Trim(lines[1]),
                            calculateConfidence(content, request))
        ELSE LET content == Trim(generatedText)
             IN  Suggestion(content, FALSE, <<>>,
                            calculateConfidence(content, request))

(* ----------------------------- hashtags ------------------------------- *)

\* tag.trim().replace('#', '')
CleanTag(tag) == ReplaceFirst(Trim(tag), "#")

\* split(',').map(clean).filter(nonempty).slice(0, count)
ParseHashtags(generatedText, count) ==
    Take(SelectSeq([i \in 1..Len(Split(generatedText, ",")) |->
                        CleanTag(Split(generatedText, ",")[i])],
                   LAMBDA tag : Len(tag) > 0),
         count)

(* --------------------------- provider calls --------------------------- *)

\* what the provider does with one call: it rejects, it answers with an
\* empty candidates list, or its first candidate carries a text
Outcome(status, text) == [status |-> status, text |-> text]

ProviderRejects == Outcome("error", <<>>)

NoCandidates == Outcome("noCandidates", <<>>)

ProviderText(text) == Outcome("text", text)

\* the failure raised by the provider, and those raised by the service
ProviderError == "provider error"

ContentError == "Failed to generate content. Please try again."

VariationsError == "Failed to generate content variations."

NoError == ""

\* a provider call in flight: one user-role message with one text part
Call(prompt) ==
    [role |-> "user", prompt |-> prompt, status |-> "pending", text |-> <<>>]

\* the two instructions sent without the blank line between them
GenerateContentCallUnseparated(request) ==
    Call(buildSystemPrompt(request) \o buildUserPrompt(request))

\* the call issued by generateContent
GenerateContentCall(request) ==
    Call(buildSystemPrompt(request) \o <<"\n\n">> \o buildUserPrompt(request))

\* the call issued by generateHashtags
HashtagsCall(content, count) ==
    Call(<<"Generate ", ToString(count),
           " relevant and popular hashtags for the following content. Return only the hashtags separated by commas, without the # symbol:\n\n">>
         \o content)

NoSuggestion == Suggestion(<<>>, FALSE, <<>>, NaN)

\* the promise returned by one generateContent call
Promise(state, value, reason) == [state |-> state, value |-> value, reason |-> reason]

PendingPromise == Promise("pending", NoSuggestion, NoError)

\* an empty candidates list read as an empty text instead of throwing
SettleGenerateContentLenient(outcome, request) ==
    IF outcome.status \in {"text", "noCandidates"}
    THEN Promise("fulfilled", parseGeneratedContent(outcome.text, request), NoError)
    ELSE Promise("rejected", NoSuggestion, ContentError)

\* generateContent letting the failure it caught through
SettleGenerateContentRethrow(outcome, request) ==
    IF outcome.status = "text"
    THEN Promise("fulfilled", parseGeneratedContent(outcome.text, request), NoError)
    ELSE Promise("rejected", NoSuggestion, ProviderError)

\* generateContent once its provider call is over: reading candidates[0] of
\* an empty list throws inside the try block, like a rejected call
SettleGenerateContent(outcome, request) ==
    IF outcome.status = "text"
    THEN Promise("fulfilled", parseGeneratedContent(outcome.text, request), NoError)
    ELSE Promise("rejected", NoSuggestion, ContentError)

\* generateHashtags letting the failure of its call through
SettleGenerateHashtagsRethrow(outcome, count) ==
    IF outcome.status = "text"
    THEN [status |-> "returned", suggestions |-> <<>>,
          hashtags |-> ParseHashtags(outcome.text, count), error |-> NoError]
    ELSE [status |-> "failed", suggestions |-> <<>>,
          hashtags |-> <<>>, error |-> ProviderError]

\* generateHashtags once its provider call is over
SettleGenerateHashtags(outcome, count) ==
    IF outcome.status = "text"
    THEN [status |-> "returned", suggestions |-> <<>>,
          hashtags |-> ParseHashtags(outcome.text, count), error |-> NoError]
    ELSE [status |-> "returned", suggestions |-> <<>>,
          hashtags |-> <<>>, error |-> NoError]

(* ---------------------------- Promise.all ----------------------------- *)

\* values kept in the order in which the promises fulfil
PromiseAllStoreByArrival(values, index, value) ==
    values \cup {<<Cardinality(values) + 1, value>>}

\* Promise.all keeps each fulfilled value under the index of its promise
PromiseAllStore(values, index, value) == values \cup {<<index, value>>}

PromiseAllPending == [state |-> "pending", values |-> {}, reason |-> NoError]

\* Promise.all of an array of n promises, before any of them settles
PromiseAllOf(n) ==
    IF n = 0 THEN [PromiseAllPending EXCEPT !.state = "fulfilled"] ELSE PromiseAllPending

\* a join that fulfils one value early
PromiseAllReactEager(all, index, promise, n) ==
    IF all.state # "pending" THEN all
    ELSE IF promise.state = "rejected"
         THEN [all EXCEPT !.state = "rejected", !.reason = promise.reason]
    ELSE LET values == PromiseAllStore(all.values, index, promise.value)
         IN  [all EXCEPT !.values = values,
                         !.state = IF Cardinality(values) >= n - 1 THEN "fulfilled"
                                   ELSE "pending"]

\* the reaction of Promise.all to promise number index settling as promise
PromiseAllReact(all, index, promise, n) ==
    IF all.state # "pending" THEN all
    ELSE IF promise.state = "rejected"
         THEN [all EXCEPT !.state = "rejected", !.reason = promise.reason]
    ELSE LET values == PromiseAllStore(all.values, index, promise.value)
         IN  [all EXCEPT !.values = values,
                         !.state = IF Cardinality(values) = n THEN "fulfilled"
                                   ELSE "pending"]

\* the array Promise.all fulfils with
PromiseAllValues(all, n) ==
    [i \in 1..n |-> (CHOOSE p \in all.values : p[1] = i)[2]]

(* ---------------------------- the service ----------------------------- *)

\* what the caller of an operation observes
NoResult == [status |-> "none", suggestions |-> <<>>, hashtags |-> <<>>, error |-> NoError]

Returned(suggestions) ==
    [status |-> "returned", suggestions |-> suggestions, hashtags |-> <<>>, error |-> NoError]

Failed(error) ==
    [status |-> "failed", suggestions |-> <<>>, hashtags |-> <<>>, error |-> error]

\* the outcome of awaiting a generateContent promise
Awaited(promise) ==
    IF promise.state = "fulfilled" THEN Returned(<<promise.value>>)
    ELSE Failed(promise.reason)

VariationSuffix == " (Generate a unique variation)"

\* the variations asked with the original prompt
VariationRequestPlain(request) == request

\* { ...request, prompt: `${request.prompt} (Generate a unique variation)` }
VariationRequest(request) ==
    [request EXCEPT !.prompt = @ \o <<VariationSuffix>>]

\* a decay that also files the other variations of the batch under each one
DecayVariationsWithAlternatives(results) ==
    [i \in 1..Len(results) |->
        [content |-> results[i].content, hasTitle |-> results[i].hasTitle,
         title |-> results[i].title,
         confidence |-> NumDecay(results[i].confidence, i - 1),
         alternatives |-> [j \in 1..Len(results) |-> results[j].content]]]

\* results.map((result, index) => ({...result, confidence: ... })), index from 0
DecayVariations(results) ==
    [i \in 1..Len(results) |->
        [results[i] EXCEPT !.confidence = NumDecay(@, i - 1)]]

\* a batch that hands back the suggestions gathered before a failure
VariationsResultPartial(all, n) ==
    IF all.state = "fulfilled" THEN Returned(DecayVariations(PromiseAllValues(all, n)))
    ELSE LET got == {p[1] : p \in all.values}
             nth(k) == CHOOSE i \in got : Cardinality({j \in got : j < i}) = k - 1
         IN  Returned(DecayVariations(
                 [k \in 1..Cardinality(got) |->
                     (CHOOSE p \in all.values : p[1] = nth(k))[2]]))

\* generateMultipleVariations after its await of Promise.all
VariationsResult(all, n) ==
    IF all.state = "fulfilled" THEN Returned(DecayVariations(PromiseAllValues(all, n)))
    ELSE Failed(VariationsError)

improvementPrompts(improvementType, targetAudience) ==
    CASE improvementType = "engagement" -> <<"Make this content more engaging and compelling">>
      [] improvementType = "clarity" -> <<"Improve the clarity and readability of this content">>
      [] improvementType = "seo" -> <<"Optimize this content for search engines while maintaining readability">>
      [] improvementType = "tone" ->
            <<"Adjust the tone of this content to better match the ">>
            \o (IF targetAudience # <<>> THEN targetAudience ELSE <<"target audience">>)

\* improvContent forgetting to pass the audience on
ImproveRequestNoAudience(originalContent, improvementType, targetAudience) ==
    Request(improvementPrompts(improvementType, targetAudience) \o <<":\n\n">> \o originalContent,
            "post", None, None, <<>>, FALSE, <<>>)

\* the request improvContent hands to generateContent
ImproveRequest(originalContent, improvementType, targetAudience) ==
    Request(improvementPrompts(improvementType, targetAudience) \o <<":\n\n">> \o originalContent,
            "post", None, None, targetAudience, FALSE, <<>>)

(* ------------------------------- inputs ------------------------------- *)

ContentAlphabet == {"A", "a", " ", "\n"}

HashtagAlphabet == {"a", "#", ",", " "}

\* n words "a" separated by single spaces
WordsText(n) == [i \in 1..(2 * n - 1) |-> IF i % 2 = 1 THEN "a" ELSE " "]

\* a capitalised first line of n characters followed by a one-word body
TitledText(n) == <<"A">> \o Rep("a", n - 1) \o <<"\n", "a">>

\* texts at the thresholds of the scorer and of the title test
LongTexts ==
    {WordsText(n) : n \in {10, ShortMax, ShortMax + 1, MediumMax, MediumMax + 1}}
    \cup {TitledText(n) : n \in {TitleMaxLen - 1, TitleMaxLen}}

\* a capitalised first line behind a leading space
IndentedTitle == <<" ", "A", "\n", "a">>

ContentTexts == SeqUpTo(ContentAlphabet, MaxLen) \cup LongTexts \cup {IndentedTitle}

\* "#sale, #deals , #retail"
ExampleTags ==
    <<"#", "s", "a", "l", "e", ",", " ", "#", "d", "e", "a", "l", "s", " ", ",",
      " ", "#", "r", "e", "t", "a", "i", "l">>

HashtagTexts == SeqUpTo(HashtagAlphabet, MaxLen) \cup {ExampleTags}

KeywordSet == {<<"A">>, <<"a", "a">>}

FourKeywords == << <<"A">>, <<"a", "a">>, <<"a", "a">>, <<"A">> >>

KeywordLists == SeqUpTo(KeywordSet, MaxKw) \cup {FourKeywords}

SomePrompt == <<"a">>

Audiences == {<<>>, <<"a">>}

\* requests that differ in what the scorer reads
ScoreRequests ==
    {Request(SomePrompt, "post", None, length, <<>>, FALSE, <<>>) :
        length \in Lengths \cup {None}}
    \cup {Request(SomePrompt, "post", None, length, <<>>, TRUE, keywords) :
        length \in Lengths \cup {None}, keywords \in KeywordLists}

\* requests that differ in what the prompt builder reads
PromptRequests ==
    {Request(SomePrompt, contentType, tone, None, targetAudience, FALSE, <<>>) :
        contentType \in ContentTypes, tone \in Tones \cup {None},
        targetAudience \in Audiences}

Requests == ScoreRequests \cup PromptRequests

ContentOutcomes ==
    {ProviderRejects, NoCandidates} \cup {ProviderText(t) : t \in ContentTexts}

HashtagOutcomes ==
    {ProviderRejects, NoCandidates} \cup {ProviderText(t) : t \in HashtagTexts}

\* the requests and provider answers of a variation batch
VariationRequests ==
    {Request(SomePrompt, "post", None, length, <<>>, k[1], k[2]) :
        length \in {None, "short"},
        k \in {<<FALSE, <<>> >>, <<TRUE, <<>> >>, <<TRUE, << <<"A">> >> >>}}

VariationTexts == {<<"a">>, <<"A", "\n", "a">>}

VariationOutcomes ==
    {ProviderRejects, NoCandidates} \cup {ProviderText(t) : t \in VariationTexts}

(* ------------------------- requests to the routes --------------------- *)

\* the most route handlers suspended at the same time
MaxInFlight == 2

\* the user ids the authentication middleware can attach to a request
UserIds == {"u1", "u2"}

\* a request let through without a user id
AuthenticatedAlways(userId) == TRUE

\* !userId is false: the middleware attached a user id to the request
Authenticated(userId) == userId # None

\* a request body: keys are the keys it carries, the other fields their
\* values (meaningful for the keys carried only)
EmptyBody ==
    [keys |-> {}, prompt |-> <<>>, contentType |-> "", tone |-> "", length |-> "",
     targetAudience |-> <<>>, keywords |-> <<>>, count |-> 0, variations |-> 0,
     content |-> <<>>, improvementType |-> "", campaignId |-> 0, title |-> <<>>,
     type |-> "", userId |-> "", name |-> <<>>, email |-> <<>>, password |-> <<>>]

Has(body, key) == key \in body.keys

\* Joi.string().min(min).max(max): the empty string is never allowed
StringBetween(text, min, max) == Len(text) >= 1 /\ Len(text) >= min /\ Len(text) <= max

\* the fields the generation schemas share
ContentFieldsValid(body) ==
    /\ Has(body, "prompt") /\ StringBetween(body.prompt, 10, 1000)
    /\ Has(body, "contentType") /\ body.contentType \in ContentTypes
    /\ Has(body, "tone") => body.tone \in Tones
    /\ Has(body, "length") => body.length \in Lengths
    /\ Has(body, "targetAudience") => StringBetween(body.targetAudience, 0, 500)

\* the schema of POST /api/ai/generate
aiGenerateSchema(body) ==
    /\ body.keys \subseteq {"prompt", "contentType", "tone", "length",
                            "targetAudience", "keywords"}
    /\ ContentFieldsValid(body)
    /\ Has(body, "keywords") =>
          /\ Len(body.keywords) <= 20
          /\ \A i \in 1..Len(body.keywords) : StringBetween(body.keywords[i], 0, 50)

\* the schema of POST /api/ai/variations
aiVariationsSchema(body) ==
    /\ aiGenerateSchema([body EXCEPT !.keys = @ \ {"count"}])
    /\ Has(body, "count") => (body.count >= 2 /\ body.count <= 5)

\* the schema of POST /api/posts/generate
postsGenerateSchema(body) ==
    /\ body.keys \subseteq {"prompt", "contentType", "tone", "length",
                            "targetAudience", "keywords", "variations"}
    /\ ContentFieldsValid(body)
    /\ Has(body, "keywords") =>
          \A i \in 1..Len(body.keywords) : Len(body.keywords[i]) >= 1
    /\ Has(body, "variations") => (body.variations >= 1 /\ body.variations <= 5)

\* the schema of the two improve routes
improveSchema(body) ==
    /\ body.keys \subseteq {"content", "improvementType", "targetAudience"}
    /\ Has(body, "content") /\ StringBetween(body.content, 10, 2000)
    /\ Has(body, "improvementType")
    /\ body.improvementType \in {"engagement", "clarity", "seo", "tone"}
    /\ Has(body, "targetAudience") => StringBetween(body.targetAudience, 0, 500)

\* the schema of the two hashtags routes
hashtagsSchema(body) ==
    /\ body.keys \subseteq {"content", "count"}
    /\ Has(body, "content") /\ StringBetween(body.content, 10, 2000)
    /\ Has(body, "count") => (body.count >= 1 /\ body.count <= 20)

AiRoutes ==
    {"ai/generate", "ai/variations", "ai/improve", "ai/hashtags",
     "posts/generate", "posts/hashtags", "posts/improve"}

\* schema.validate(req.body) of a route reports no error
AiRouteValidates(route, body) ==
    CASE route = "ai/generate" -> aiGenerateSchema(body)
      [] route = "ai/variations" -> aiVariationsSchema(body)
      [] route = "posts/generate" -> postsGenerateSchema(body)
      [] route \in {"ai/improve", "posts/improve"} -> improveSchema(body)
      [] route \in {"ai/hashtags", "posts/hashtags"} -> hashtagsSchema(body)

\* the validated value with the defaults of the schemas filled in
ValueCount(body) == IF Has(body, "count") THEN body.count ELSE 3

ValueVariations(body) == IF Has(body, "variations") THEN body.variations ELSE 1

ValueHashtagCount(body) == IF Has(body, "count") THEN body.count ELSE 10

\* the validated value of a generation route as a GenerateContentRequest
ValueRequest(body) ==
    Request(body.prompt, body.contentType,
            IF Has(body, "tone") THEN body.tone ELSE None,
            IF Has(body, "length") THEN body.length ELSE None,
            IF Has(body, "targetAudience") THEN body.targetAudience ELSE <<>>,
            Has(body, "keywords"), body.keywords)

\* a route handler suspended at an await: the request it serves, where it is
\* suspended and, if it answers with it, the document it has read
Handler(pc, route, userId, id, body, found) ==
    [pc |-> pc, route |-> route, userId |-> userId, id |-> id, body |-> body,
     found |-> found]

NoDocument == [exists |-> FALSE]

FreeHandler == Handler("free", "", None, 0, EmptyBody, NoDocument)

\* a response: the request it answers and the step of the route that took
\* it up, its status code, its message and the data it carries
Response(handler, status, message, data) ==
    [pc |-> handler.pc,
     route |-> handler.route, userId |-> handler.userId, id |-> handler.id,
     body |-> handler.body, found |-> handler.found,
     status |-> status, message |-> message, data |-> data]

NoData == [none |-> TRUE]

NoResponse == Response(FreeHandler, 0, "", NoData)

AuthenticationRequired == "Authentication required"

\* error.details[0].message of the validation library
ValidationMessage == "validation error"

\* the message of the catch block of a route
FailureMessage(route) ==
    CASE route \in {"ai/generate", "posts/generate"} ->
            "Failed to generate content. Please try again."
      [] route = "ai/variations" ->
            "Failed to generate content variations. Please try again."
      [] route \in {"ai/improve", "posts/improve"} ->
            "Failed to improve content. Please try again."
      [] route \in {"ai/hashtags", "posts/hashtags"} ->
            "Failed to generate hashtags. Please try again."

(* ------------------------------- state -------------------------------- *)

VARIABLES
    op,        \* the operation called on the service, and its arguments
    calls,     \* the provider calls issued so far, in issuance order
    promises,  \* the generateContent promise of each call
    all,       \* the Promise.all of generateMultipleVariations
    completed, \* the indexes of the calls that are over, in completion order
    result,    \* what the caller of the operation has observed
    users,     \* the documents of the users collection, by document id
    campaigns, \* the documents of the campaigns collection, by document id
    posts,     \* the documents of the posts collection, by document id
    handlers,  \* the bag of the route handlers suspended at an await
    response   \* the response a route handler is sending

vars == <<op, calls, promises, all, completed, result,
          users, campaigns, posts, handlers, response>>

\* the state of the content service
serviceVars == <<op, calls, promises, all, completed, result>>

\* the document store
storeVars == <<users, campaigns, posts>>

\* the state outside the content service
routeVars == <<users, campaigns, posts, handlers, response>>

\* an operation and its arguments: request is the one handed to
\* generateContent; improvementType, content and targetAudience are the
\* arguments of improvContent
Operation(kind, request, count, improvementType, content, targetAudience) ==
    [kind |-> kind, request |-> request, count |-> count,
     improvementType |-> improvementType, content |-> content,
     targetAudience |-> targetAudience]

Idle == Operation("idle", Request(<<>>, "post", None, None, <<>>, FALSE, <<>>), 0, None, <<>>, <<>>)

\* a batch that gives up its other calls once one of them has failed
CallInFlightUntilFailure(i) == calls[i].status = "pending" /\ all.state # "rejected"

\* provider call i has been issued and is not over: nothing in the service
\* can abort it
CallInFlight(i) == calls[i].status = "pending"

ContentKinds == {"generateContent", "improvContent", "generateMultipleVariations"}

Init ==
    /\ op = Idle
    /\ calls = <<>>
    /\ promises = <<>>
    /\ all = PromiseAllPending
    /\ completed = <<>>
    /\ result = NoResult
    /\ users = <<>>
    /\ campaigns = <<>>
    /\ posts = <<>>
    /\ handlers = EmptyBag
    /\ response = NoResponse

\* generateContent(request), up to its await
generateContent(request) ==
    /\ op.kind = "idle"
    /\ op' = Operation("generateContent", request, 1, None, <<>>, <<>>)
    /\ calls' = <<GenerateContentCall(request)>>
    /\ promises' = <<PendingPromise>>
    /\ UNCHANGED <<all, completed, result>>

\* improvContent(originalContent, improvementType, targetAudience), up to the
\* await inside the generateContent it delegates to
improvContent(originalContent, improvementType, targetAudience) ==
    LET request == ImproveRequest(originalContent, improvementType, targetAudience)
    IN  /\ op.kind = "idle"
        /\ op' = Operation("improvContent", request, 1, improvementType,
                        originalContent, targetAudience)
        /\ calls' = <<GenerateContentCall(request)>>
        /\ promises' = <<PendingPromise>>
        /\ UNCHANGED <<all, completed, result>>

\* generateMultipleVariations(request, count), up to its await: the count
\* generateContent calls each run up to their own await, in index order
generateMultipleVariations(request, count) ==
    /\ op.kind = "idle"
    /\ op' = Operation("generateMultipleVariations", request, count, None, <<>>, <<>>)
    /\ calls' = [i \in 1..count |-> GenerateContentCall(VariationRequest(request))]
    /\ promises' = [i \in 1..count |-> PendingPromise]
    /\ all' = PromiseAllOf(count)
    /\ UNCHANGED <<completed, result>>

\* generateHashtags(content, count), up to its await
generateHashtags(content, count) ==
    /\ op.kind = "idle"
    /\ op' = Operation("generateHashtags", Idle.request, count, None, content, <<>>)
    /\ calls' = <<HashtagsCall(content, count)>>
    /\ UNCHANGED <<promises, all, completed, result>>

\* the provider call of a single generateContent is over: generateContent
\* resumes and its caller observes the outcome
ContentCallEnds(outcome) ==
    /\ op.kind \in {"generateContent", "improvContent"}
    /\ calls[1].status = "pending"
    /\ calls' = [calls EXCEPT ![1].status = outcome.status, ![1].text = outcome.text]
    /\ promises' = [promises EXCEPT ![1] = SettleGenerateContent(outcome, op.request)]
    /\ completed' = Append(completed, 1)
    /\ result' = Awaited(promises'[1])
    /\ UNCHANGED <<op, all>>
    /\ UNCHANGED routeVars

\* provider call i of a variation batch is over: its generateContent resumes
\* and Promise.all reacts to the promise
VariationCallEnds(i, outcome) ==
    /\ op.kind = "generateMultipleVariations"
    /\ i \in 1..Len(calls)
    /\ CallInFlight(i)
    /\ calls' = [calls EXCEPT ![i].status = outcome.status, ![i].text = outcome.text]
    /\ promises' = [promises EXCEPT
                       ![i] = SettleGenerateContent(outcome, VariationRequest(op.request))]
    /\ all' = PromiseAllReact(all, i, promises'[i], op.count)
    /\ completed' = Append(completed, i)
    /\ UNCHANGED <<op, result>>
    /\ UNCHANGED routeVars

\* generateMultipleVariations resumes after its await of Promise.all
VariationsResume ==
    /\ op.kind = "generateMultipleVariations"
    /\ all.state # "pending"
    /\ result.status = "none"
    /\ result' = VariationsResult(all, op.count)
    /\ UNCHANGED <<op, calls, promises, all, completed>>
    /\ UNCHANGED routeVars

\* the provider call of generateHashtags is over
HashtagsCallEnds(outcome) ==
    /\ op.kind = "generateHashtags"
    /\ calls[1].status = "pending"
    /\ calls' = [calls EXCEPT ![1].status = outcome.status, ![1].text = outcome.text]
    /\ completed' = Append(completed, 1)
    /\ result' = SettleGenerateHashtags(outcome, op.count)
    /\ UNCHANGED <<op, promises, all>>
    /\ UNCHANGED routeVars

\* the operations of the service called directly; the four operations
\* describe the service up to its first await and leave the state of their
\* caller to the caller
Next ==
    \/ \E request \in Requests : generateContent(request) /\ UNCHANGED routeVars
    \/ \E improvementType \in {"engagement", "clarity", "seo", "tone"},
          targetAudience \in Audiences :
            improvContent(SomePrompt, improvementType, targetAudience)
                /\ UNCHANGED routeVars
    \/ \E request \in VariationRequests, count \in 0..MaxCount :
            generateMultipleVariations(request, count) /\ UNCHANGED routeVars
    \/ \E count \in 1..MaxTags :
            generateHashtags(SomePrompt, count) /\ UNCHANGED routeVars
    \/ \E outcome \in ContentOutcomes : ContentCallEnds(outcome)
    \/ \E i \in 1..MaxCount, outcome \in VariationOutcomes : VariationCallEnds(i, outcome)
    \/ VariationsResume
    \/ \E outcome \in HashtagOutcomes : HashtagsCallEnds(outcome)

Spec == Init /\ [][Next]_vars

(* ------------------- the decay of a large batch ---------------------- *)

\* the size of a batch large enough for a negative multiplier
BatchCount == 12

BatchTexts == {<<"a">>, <<"A", "\n", "a">>}

\* call number i of a batch for request, over with the given text
EndedCall(request, text) ==
    [GenerateContentCall(VariationRequest(request)) EXCEPT
        !.status = "text", !.text = text]

\* a batch of BatchCount calls that all ended with a text, in issuance
\* order, before generateMultipleVariations resumes
InitDecay ==
    \E request \in VariationRequests, texts \in [1..BatchCount -> BatchTexts] :
        /\ op = Operation("generateMultipleVariations", request, BatchCount,
                          None, <<>>, <<>>)
        /\ calls = [i \in 1..BatchCount |-> EndedCall(request, texts[i])]
        /\ promises = [i \in 1..BatchCount |->
               SettleGenerateContent(ProviderText(texts[i]), VariationRequest(request))]
        /\ all = [state |-> "fulfilled", reason |-> NoError,
                  values |-> {<<i, parseGeneratedContent(texts[i], VariationRequest(request))>> :
                                 i \in 1..BatchCount}]
        /\ completed = [i \in 1..BatchCount |-> i]
        /\ result = NoResult
        /\ users = <<>>
        /\ campaigns = <<>>
        /\ posts = <<>>
        /\ handlers = EmptyBag
        /\ response = NoResponse

NextDecay == VariationsResume

SpecDecay == InitDecay /\ [][NextDecay]_vars

(* ------------------------ the content routes -------------------------- *)

TenChars == Rep("a", 10)

NineChars == Rep("a", 9)

\* bodies around the limits of the schemas of the content routes
GenerateBody == [EmptyBody EXCEPT !.keys = {"prompt", "contentType"},
                                  !.prompt = TenChars, !.contentType = "post"]

ImproveBody == [EmptyBody EXCEPT !.keys = {"content", "improvementType"},
                                 !.content = TenChars, !.improvementType = "tone"]

HashtagsBody == [EmptyBody EXCEPT !.keys = {"content"}, !.content = TenChars]

RouteBodies ==
    {EmptyBody, GenerateBody, ImproveBody, HashtagsBody,
     [GenerateBody EXCEPT !.prompt = NineChars],
     [GenerateBody EXCEPT !.contentType = "blog"],
     [GenerateBody EXCEPT !.keys = @ \cup {"userId"}, !.userId = "u1"],
     [GenerateBody EXCEPT !.keys = @ \cup {"keywords", "length"}, !.length = "short"],
     [GenerateBody EXCEPT !.keys = @ \cup {"count"}, !.count = 1],
     [GenerateBody EXCEPT !.keys = @ \cup {"count"}, !.count = 2],
     [GenerateBody EXCEPT !.keys = @ \cup {"variations"}, !.variations = 2],
     [ImproveBody EXCEPT !.content = NineChars],
     [ImproveBody EXCEPT !.keys = @ \cup {"targetAudience"}],
     [HashtagsBody EXCEPT !.keys = @ \cup {"count"}, !.count = 0],
     [HashtagsBody EXCEPT !.keys = @ \cup {"count"}, !.count = 1]}

\* the handlers suspended at an await
InFlight == BagToSet(handlers)

\* the server takes up a request: no response is being sent and fewer than
\* MaxInFlight handlers are suspended
SlotFree == response = NoResponse /\ BagCardinality(handlers) < MaxInFlight

\* a route answers at once and nothing else changes
Answers(request, status, message, data) ==
    /\ response' = Response(request, status, message, data)
    /\ UNCHANGED <<serviceVars, storeVars, handlers>>

\* a handler is suspended at an await
Suspended(request) == handlers' = handlers (+) SetToBag({request})

\* a suspended handler resumes and runs to its end
Resumed(handler) == handlers' = handlers (-) SetToBag({handler})

\* res.json(...) is over and the handler has returned
responseSent ==
    /\ response # NoResponse
    /\ response' = NoResponse
    /\ UNCHANGED <<serviceVars, storeVars, handlers>>

\* the call a content route makes on the service with its validated value
ServiceCall(route, body) ==
    CASE route = "ai/generate" -> generateContent(ValueRequest(body))
      [] route = "ai/variations" ->
            generateMultipleVariations(ValueRequest(body), ValueCount(body))
      [] route = "posts/generate" ->
            IF ValueVariations(body) > 1
            THEN generateMultipleVariations(ValueRequest(body), ValueVariations(body))
            ELSE generateContent(ValueRequest(body))
      [] route \in {"ai/improve", "posts/improve"} ->
            improvContent(body.content, body.improvementType,
                          IF Has(body, "targetAudience") THEN body.targetAudience
                          ELSE <<>>)
      [] route \in {"ai/hashtags", "posts/hashtags"} ->
            generateHashtags(body.content, ValueHashtagCount(body))

\* a content route from the arrival of a request to its first await: the
\* user id is tested first, then the body, then the service is called
ContentRoute(route, userId, body) ==
    LET request == Handler("service", route, userId, 0, body, NoDocument)
    IN  /\ SlotFree
        /\ op.kind = "idle"
        /\ IF ~Authenticated(userId)
           THEN Answers(request, 401, AuthenticationRequired, NoData)
           ELSE IF ~AiRouteValidates(route, body)
           THEN Answers(request, 400, ValidationMessage, NoData)
           ELSE /\ ServiceCall(route, body)
                /\ Suspended(request)
                /\ UNCHANGED <<response, storeVars>>

aiGenerate(userId, body) == ContentRoute("ai/generate", userId, body)

aiVariations(userId, body) == ContentRoute("ai/variations", userId, body)

aiImprove(userId, body) == ContentRoute("ai/improve", userId, body)

aiHashtags(userId, body) == ContentRoute("ai/hashtags", userId, body)

postsGenerate(userId, body) == ContentRoute("posts/generate", userId, body)

postsHashtags(userId, body) == ContentRoute("posts/hashtags", userId, body)

postsImprove(userId, body) == ContentRoute("posts/improve", userId, body)

\* a content route resumes after its await of the service: the result is
\* sent, or the catch block answers with the message of the route
ContentRouteResumes(handler) ==
    /\ handler.pc = "service"
    /\ response = NoResponse
    /\ result.status # "none"
    /\ response' =
          IF result.status = "returned"
          THEN Response(handler, 200, "",
                        [suggestions |-> result.suggestions,
                         hashtags |-> result.hashtags])
          ELSE Response(handler, 500, FailureMessage(handler.route), NoData)
    /\ Resumed(handler)
    /\ UNCHANGED <<serviceVars, storeVars>>

NextRoutes ==
    \/ \E userId \in UserIds \cup {None}, body \in RouteBodies : aiGenerate(userId, body)
    \/ \E userId \in UserIds \cup {None}, body \in RouteBodies : aiVariations(userId, body)
    \/ \E userId \in UserIds \cup {None}, body \in RouteBodies : aiImprove(userId, body)
    \/ \E userId \in UserIds \cup {None}, body \in RouteBodies : aiHashtags(userId, body)
    \/ \E userId \in UserIds \cup {None}, body \in RouteBodies : postsGenerate(userId, body)
    \/ \E userId \in UserIds \cup {None}, body \in RouteBodies : postsHashtags(userId, body)
    \/ \E userId \in UserIds \cup {None}, body \in RouteBodies : postsImprove(userId, body)
    \/ \E outcome \in ContentOutcomes : ContentCallEnds(outcome)
    \/ \E i \in 1..MaxCount, outcome \in VariationOutcomes : VariationCallEnds(i, outcome)
    \/ VariationsResume
    \/ \E outcome \in HashtagOutcomes : HashtagsCallEnds(outcome)
    \/ \E handler \in InFlight : ContentRouteResumes(handler)
    \/ responseSent

SpecRoutes == Init /\ [][NextRoutes]_vars

(* --------------------------- registration and login ------------------- *)

\* the most user documents
MaxUsers == 3

\* bcrypt.hash(password, saltRounds): the salt is left out
Hash(password) == [bcrypt |-> password]

\* bcrypt.compare(password, hash)
Compare(password, hash) == hash = Hash(password)

\* generateToken(userId)
Token(userId) == [userId |-> userId, expiresIn |-> "7d"]

\* a document of the users collection
User(email, password, isActive) ==
    [email |-> email, password |-> password, isActive |-> isActive]

\* Joi.string().email(), reduced to: something, an @, something
IsEmail(text) ==
    \E i \in 2..(Len(text) - 1) :
        text[i] = "@" /\ \A j \in 1..Len(text) : (text[j] = "@" => j = i)

registerSchema(body) ==
    /\ body.keys \subseteq {"name", "email", "password", "company"}
    /\ Has(body, "name") /\ StringBetween(body.name, 2, 50)
    /\ Has(body, "email") /\ IsEmail(body.email)
    /\ Has(body, "password") /\ Len(body.password) >= 6

loginSchema(body) ==
    /\ body.keys \subseteq {"email", "password"}
    /\ Has(body, "email") /\ IsEmail(body.email)
    /\ Has(body, "password") /\ Len(body.password) >= 1

\* the ids of the documents a query for an email matches
UsersByEmail(email) == {i \in 1..Len(users) : users[i].email = email}

InvalidCredentials == "Invalid email or password"

Deactivated == "Account is deactivated. Please contact support."

\* a login that does not look at isActive
LoginResponseAnyAccount(handler, id) ==
    IF id = 0 THEN Response(handler, 401, InvalidCredentials, NoData)
    ELSE IF ~Compare(handler.body.password, users[id].password)
    THEN Response(handler, 401, InvalidCredentials, NoData)
    ELSE Response(handler, 200, "Login successful", [token |-> Token(id)])

\* what POST /login answers once getUserByEmail has returned the document
\* with the given id, 0 for null
LoginResponse(handler, id) ==
    IF id = 0 THEN Response(handler, 401, InvalidCredentials, NoData)
    ELSE IF ~Compare(handler.body.password, users[id].password)
    THEN Response(handler, 401, InvalidCredentials, NoData)
    ELSE IF ~users[id].isActive THEN Response(handler, 401, Deactivated, NoData)
    ELSE Response(handler, 200, "Login successful", [token |-> Token(id)])

EmailA == <<"a", "@", "x">>

EmailD == <<"d", "@", "x">>

PasswordP == Rep("p", 6)

PasswordQ == Rep("q", 6)

RegisterBody == [EmptyBody EXCEPT !.keys = {"name", "email", "password"},
                                  !.name = <<"a", "a">>, !.email = EmailA,
                                  !.password = PasswordP]

LoginBody == [EmptyBody EXCEPT !.keys = {"email", "password"},
                               !.email = EmailA, !.password = PasswordP]

RegisterBodies ==
    {RegisterBody,
     [RegisterBody EXCEPT !.password = PasswordQ],
     [RegisterBody EXCEPT !.email = EmailD],
     [RegisterBody EXCEPT !.password = Rep("p", 5)],
     [RegisterBody EXCEPT !.email = <<"a">>]}

LoginBodies ==
    {LoginBody,
     [LoginBody EXCEPT !.password = PasswordQ],
     [LoginBody EXCEPT !.email = EmailD],
     [LoginBody EXCEPT !.email = <<"a">>],
     [LoginBody EXCEPT !.keys = {"email"}]}

\* the store holds the account of EmailD, which the support has deactivated
InitAuth ==
    /\ op = Idle
    /\ calls = <<>>
    /\ promises = <<>>
    /\ all = PromiseAllPending
    /\ completed = <<>>
    /\ result = NoResult
    /\ users = <<User(EmailD, Hash(PasswordP), FALSE)>>
    /\ campaigns = <<>>
    /\ posts = <<>>
    /\ handlers = EmptyBag
    /\ response = NoResponse

\* the number of registrations that have not created their user yet
Registering ==
    BagCardinality([handler \in {r \in InFlight : r.route = "auth/register"} |->
                       handlers[handler]])

\* POST /register up to its await of getUserByEmail
register(body) ==
    LET request == Handler("lookup", "auth/register", None, 0, body, NoDocument)
    IN  /\ SlotFree
        /\ Len(users) + Registering < MaxUsers
        /\ IF ~registerSchema(body)
           THEN Answers(request, 400, ValidationMessage, NoData)
           ELSE /\ Suspended(request)
                /\ UNCHANGED <<response, serviceVars, storeVars>>

\* getUserByEmail has returned: 409 if it found a user, else the password
\* is hashed
registerLookup(handler) ==
    /\ handler.route = "auth/register"
    /\ handler.pc = "lookup"
    /\ response = NoResponse
    /\ IF UsersByEmail(handler.body.email) # {}
       THEN /\ response' = Response(handler, 409,
                                    "User already exists with this email", NoData)
            /\ Resumed(handler)
       ELSE /\ handlers' = (handlers (-) SetToBag({handler}))
                               (+) SetToBag({[handler EXCEPT !.pc = "create"]})
            /\ UNCHANGED response
    /\ UNCHANGED <<serviceVars, storeVars>>

\* createUser has added the document: the token is issued
registerCreate(handler) ==
    /\ handler.route = "auth/register"
    /\ handler.pc = "create"
    /\ response = NoResponse
    /\ users' = Append(users, User(handler.body.email, Hash(handler.body.password), TRUE))
    /\ response' = Response(handler, 201, "User created successfully",
                            [token |-> Token(Len(users) + 1)])
    /\ Resumed(handler)
    /\ UNCHANGED <<serviceVars, campaigns, posts>>

\* POST /login up to its await of getUserByEmail
login(body) ==
    LET request == Handler("lookup", "auth/login", None, 0, body, NoDocument)
    IN  /\ SlotFree
        /\ IF ~loginSchema(body)
           THEN Answers(request, 400, ValidationMessage, NoData)
           ELSE /\ Suspended(request)
                /\ UNCHANGED <<response, serviceVars, storeVars>>

\* getUserByEmail has returned docs[0] of the query, or null: the password
\* is compared, the account tested and the token issued
loginLookup(handler) ==
    /\ handler.route = "auth/login"
    /\ handler.pc = "lookup"
    /\ response = NoResponse
    /\ \E id \in (IF UsersByEmail(handler.body.email) = {} THEN {0}
                  ELSE UsersByEmail(handler.body.email)) :
          response' = LoginResponse([handler EXCEPT !.id = id], id)
    /\ Resumed(handler)
    /\ UNCHANGED <<serviceVars, storeVars>>

NextAuth ==
    \/ \E body \in RegisterBodies : register(body)
    \/ \E handler \in InFlight : registerLookup(handler)
    \/ \E handler \in InFlight : registerCreate(handler)
    \/ \E body \in LoginBodies : login(body)
    \/ \E handler \in InFlight : loginLookup(handler)
    \/ responseSent

SpecAuth == InitAuth /\ [][NextAuth]_vars

(* ------------------------- campaigns and posts ------------------------ *)

\* the most documents of the campaigns and the posts collection together
MaxDocs == 2

\* a document of the campaigns collection; exists is false once it is
\* deleted, writers are the users whose requests have written it
Campaign(userId, title, exists, writers) ==
    [userId |-> userId, title |-> title, exists |-> exists, writers |-> writers]

\* a document of the posts collection
Post(userId, campaignId, title, exists, writers) ==
    [userId |-> userId, campaignId |-> campaignId, title |-> title,
     exists |-> exists, writers |-> writers]

CampaignKeys ==
    {"title", "description", "targetAudience", "keywords", "goals", "budget",
     "startDate", "endDate", "status", "channels"}

PostKeys ==
    {"title", "content", "type", "platform", "scheduledAt", "status", "tags",
     "mediaUrls"}

campaignSchema(body) ==
    /\ body.keys \subseteq CampaignKeys
    /\ Has(body, "title") /\ StringBetween(body.title, 3, 200)

updateCampaignSchema(body) ==
    /\ body.keys \subseteq CampaignKeys
    /\ Has(body, "title") => StringBetween(body.title, 3, 200)

postSchema(body) ==
    /\ body.keys \subseteq PostKeys \cup {"campaignId"}
    /\ Has(body, "campaignId")
    /\ Has(body, "title") /\ StringBetween(body.title, 3, 200)
    /\ Has(body, "content") /\ StringBetween(body.content, 10, 5000)
    /\ Has(body, "type") /\ body.type \in {"social", "email", "blog", "ad"}

updatePostSchema(body) ==
    /\ body.keys \subseteq PostKeys
    /\ Has(body, "title") => StringBetween(body.title, 3, 200)
    /\ Has(body, "content") => StringBetween(body.content, 10, 5000)
    /\ Has(body, "type") => body.type \in {"social", "email", "blog", "ad"}

Collections == {"campaigns", "posts"}

\* the documents of a collection
Documents(collection) == IF collection = "campaigns" THEN campaigns ELSE posts

\* get...ById(id): the document, or null
GetById(collection, id) ==
    IF id \in 1..Len(Documents(collection)) /\ Documents(collection)[id].exists
    THEN Documents(collection)[id]
    ELSE NoDocument

\* updatePostSchema.validate / updateCampaignSchema.validate reports no error
UpdateValidates(collection, body) ==
    IF collection = "campaigns" THEN updateCampaignSchema(body)
    ELSE updatePostSchema(body)

\* doc(id).update({...updates}): every key of the updates is written
UpdatedDocument(collection, document, updates, userId) ==
    LET merged == [document EXCEPT
                      !.title = IF Has(updates, "title") THEN updates.title ELSE @,
                      !.userId = IF Has(updates, "userId") THEN updates.userId ELSE @,
                      !.writers = @ \cup {userId}]
    IN  IF collection = "posts" /\ Has(updates, "campaignId")
        THEN [merged EXCEPT !.campaignId = updates.campaignId]
        ELSE merged

\* every user passes the ownership test of the by-id routes
IsOwnerAlways(document, userId) == TRUE

\* the ownership test of the by-id routes: not (document.userId !== userId)
IsOwner(document, userId) == document.userId = userId

\* the ownership test of POST /api/posts passes for any existing campaign
OwnsCampaignOrAny(campaign, userId) == campaign.exists

\* the ownership test of POST /api/posts: campaign && campaign.userId === userId
OwnsCampaign(campaign, userId) == campaign.exists /\ campaign.userId = userId

TitleT == Rep("t", 3)

TitleU == Rep("u", 3)

\* req.body of {} to the campaign and the post routes: the keys sent, and the
\* values of the keys that the routes and their schemas read
EmptyDocumentBody ==
    [keys |-> {}, title |-> <<>>, campaignId |-> 0, userId |-> "",
     content |-> <<>>, type |-> ""]

CampaignBody == [EmptyDocumentBody EXCEPT !.keys = {"title"}, !.title = TitleT]

CampaignBodies == {CampaignBody, [CampaignBody EXCEPT !.title = Rep("t", 2)]}

UpdateBodies ==
    {[CampaignBody EXCEPT !.title = TitleU],
     [CampaignBody EXCEPT !.keys = {"title", "userId"}, !.userId = "u2"],
     [CampaignBody EXCEPT !.keys = {"campaignId"}, !.campaignId = MaxDocs]}

PostBody(campaignId) ==
    [EmptyDocumentBody EXCEPT !.keys = {"campaignId", "title", "content", "type"},
                      !.campaignId = campaignId, !.title = TitleT,
                      !.content = TenChars, !.type = "social"]

PostBodies ==
    {PostBody(campaignId) : campaignId \in 1..MaxDocs}
    \cup {[PostBody(1) EXCEPT !.keys = @ \cup {"userId"}, !.userId = "u2"],
          [PostBody(1) EXCEPT !.content = NineChars]}

InitStore ==
    /\ op = Idle
    /\ calls = <<>>
    /\ promises = <<>>
    /\ all = PromiseAllPending
    /\ completed = <<>>
    /\ result = NoResult
    /\ users = <<>>
    /\ campaigns = <<>>
    /\ posts = <<>>
    /\ handlers = EmptyBag
    /\ response = NoResponse

\* a new document is added to a collection
Adds(collection, document) ==
    IF collection = "campaigns"
    THEN campaigns' = Append(campaigns, document) /\ UNCHANGED <<users, posts>>
    ELSE posts' = Append(posts, document) /\ UNCHANGED <<users, campaigns>>

\* the document with the given id of a collection is replaced
Writes(collection, id, document) ==
    IF collection = "campaigns"
    THEN campaigns' = [campaigns EXCEPT ![id] = document] /\ UNCHANGED <<users, posts>>
    ELSE posts' = [posts EXCEPT ![id] = document] /\ UNCHANGED <<users, campaigns>>

\* the number of posts being created
CreatingPosts ==
    BagCardinality([handler \in {r \in InFlight : r.pc = "createPost"} |->
                       handlers[handler]])

\* the documents created and being created
DocumentCount == Len(campaigns) + Len(posts) + CreatingPosts

\* POST /api/campaigns: its one access to the store is the add
createCampaign(userId, body) ==
    LET request == Handler("create", "campaigns", userId, 0, body, NoDocument)
    IN  /\ response = NoResponse
        /\ DocumentCount < MaxDocs
        /\ IF ~Authenticated(userId)
           THEN Answers(request, 401, AuthenticationRequired, NoData)
           ELSE IF ~campaignSchema(body)
           THEN Answers(request, 400, ValidationMessage, NoData)
           ELSE /\ Adds("campaigns", Campaign(userId, body.title, TRUE, {userId}))
                /\ response' = Response([request EXCEPT !.id = Len(campaigns) + 1],
                                        201, "Campaign created successfully", NoData)
                /\ UNCHANGED <<serviceVars, handlers>>

\* GET /api/campaigns/:id and GET /api/posts/:id: the one access to the
\* store is the read
getById(collection, userId, id) ==
    LET found == GetById(collection, id)
        request == Handler("get", collection, userId, id, EmptyDocumentBody, found)
    IN  /\ response = NoResponse
        /\ IF ~Authenticated(userId)
           THEN Answers([request EXCEPT !.found = NoDocument], 401,
                        AuthenticationRequired, NoData)
           ELSE IF ~found.exists THEN Answers(request, 404, "not found", NoData)
           ELSE IF ~IsOwner(found, userId)
           THEN Answers(request, 403, "Access denied", NoData)
           ELSE Answers(request, 200, "", [document |-> found])

\* PUT /api/campaigns/:id and PUT /api/posts/:id up to the await of the update
putById(collection, userId, id, body) ==
    LET found == GetById(collection, id)
        request == Handler("update", collection, userId, id, body, found)
    IN  /\ SlotFree
        /\ IF ~Authenticated(userId)
           THEN Answers([request EXCEPT !.found = NoDocument], 401,
                        AuthenticationRequired, NoData)
           ELSE IF ~UpdateValidates(collection, body)
           THEN Answers([request EXCEPT !.found = NoDocument], 400,
                        ValidationMessage, NoData)
           ELSE IF ~found.exists THEN Answers(request, 404, "not found", NoData)
           ELSE IF ~IsOwner(found, userId)
           THEN Answers(request, 403, "Access denied", NoData)
           ELSE /\ Suspended([request EXCEPT !.found = NoDocument])
                /\ UNCHANGED <<response, serviceVars, storeVars>>

\* DELETE /api/campaigns/:id and DELETE /api/posts/:id up to the await of the
\* delete
deleteById(collection, userId, id) ==
    LET found == GetById(collection, id)
        request == Handler("delete", collection, userId, id, EmptyDocumentBody, found)
    IN  /\ SlotFree
        /\ IF ~Authenticated(userId)
           THEN Answers([request EXCEPT !.found = NoDocument], 401,
                        AuthenticationRequired, NoData)
           ELSE IF ~found.exists THEN Answers(request, 404, "not found", NoData)
           ELSE IF ~IsOwner(found, userId)
           THEN Answers(request, 403, "Access denied", NoData)
           ELSE /\ Suspended([request EXCEPT !.found = NoDocument])
                /\ UNCHANGED <<response, serviceVars, storeVars>>

\* the update of a PUT route is done: update() of a document deleted in the
\* meantime rejects, and the rejection goes to the error handler
updateDone(handler) ==
    LET collection == handler.route
        id == handler.id
    IN  /\ handler.pc = "update"
        /\ response = NoResponse
        /\ IF Documents(collection)[id].exists
           THEN /\ Writes(collection, id,
                          UpdatedDocument(collection, Documents(collection)[id],
                                          handler.body, handler.userId))
                /\ response' = Response(handler, 200, "updated successfully", NoData)
           ELSE /\ response' = Response(handler, 500, "error handler", NoData)
                /\ UNCHANGED storeVars
        /\ Resumed(handler)
        /\ UNCHANGED serviceVars

\* the delete of a DELETE route is done
deleteDone(handler) ==
    LET collection == handler.route
        id == handler.id
    IN  /\ handler.pc = "delete"
        /\ response = NoResponse
        /\ Writes(collection, id,
                  [Documents(collection)[id] EXCEPT
                      !.exists = FALSE, !.title = <<>>,
                      !.writers = @ \cup {handler.userId}])
        /\ response' = Response(handler, 200, "deleted successfully", NoData)
        /\ Resumed(handler)
        /\ UNCHANGED serviceVars

\* POST /api/posts up to the await of createPost
createPost(userId, body) ==
    LET found == GetById("campaigns", body.campaignId)
        request == Handler("createPost", "posts", userId, 0, body, found)
    IN  /\ SlotFree
        /\ DocumentCount < MaxDocs
        /\ IF ~Authenticated(userId)
           THEN Answers([request EXCEPT !.found = NoDocument], 401,
                        AuthenticationRequired, NoData)
           ELSE IF ~postSchema(body)
           THEN Answers([request EXCEPT !.found = NoDocument], 400,
                        ValidationMessage, NoData)
           ELSE IF ~OwnsCampaign(found, userId)
           THEN Answers(request, 403, "Campaign not found or access denied", NoData)
           ELSE /\ Suspended(request)
                /\ UNCHANGED <<response, serviceVars, storeVars>>

\* createPost has added the document
createPostDone(handler) ==
    /\ handler.pc = "createPost"
    /\ response = NoResponse
    /\ Adds("posts", Post(handler.userId, handler.body.campaignId,
                          handler.body.title, TRUE, {handler.userId}))
    /\ response' = Response([handler EXCEPT !.id = Len(posts) + 1], 201,
                            "Post created successfully", NoData)
    /\ Resumed(handler)
    /\ UNCHANGED serviceVars

\* the ids and bodies of the requests of a user: a request without userId is
\* answered before its id and its body are read, so one of each stands for all,
\* and so does one id of no document
IdsOf(collection, userId) ==
    IF Authenticated(userId)
    THEN {id \in 1..MaxDocs : id <= Len(Documents(collection)) + 1}
    ELSE {1}

BodiesOf(userId, bodies) ==
    IF Authenticated(userId) THEN bodies ELSE {CHOOSE body \in bodies : TRUE}

NextStore ==
    \/ \E userId \in UserIds \cup {None} :
          \E body \in BodiesOf(userId, CampaignBodies) : createCampaign(userId, body)
    \/ \E collection \in Collections, userId \in UserIds \cup {None} :
          \E id \in IdsOf(collection, userId) : getById(collection, userId, id)
    \/ \E collection \in Collections, userId \in UserIds \cup {None} :
          \E id \in IdsOf(collection, userId), body \in BodiesOf(userId, UpdateBodies) :
              putById(collection, userId, id, body)
    \/ \E collection \in Collections, userId \in UserIds \cup {None} :
          \E id \in IdsOf(collection, userId) : deleteById(collection, userId, id)
    \/ \E handler \in InFlight : updateDone(handler)
    \/ \E handler \in InFlight : deleteDone(handler)
    \/ \E userId \in UserIds \cup {None} :
          \E body \in BodiesOf(userId, PostBodies) : createPost(userId, body)
    \/ \E handler \in InFlight : createPostDone(handler)
    \/ responseSent

SpecStore == InitStore /\ [][NextStore]_vars

(* ------------------------------ properties --------------------------- *)

Finished == result.status # "none"

\* the suggestion the i-th issued call of a batch yields before the decay
IssuedSuggestion(i) ==
    parseGeneratedContent(calls[i].text, VariationRequest(op.request))

\* C1: in the list returned by generateMultipleVariations, position i holds
\* the suggestion of the i-th issued provider call, its confidence multiplied
\* by (1 - 0.1 * i) (i from 0), whatever the order in which the calls ended.
C1_DecayFollowsIssuance ==
    (op.kind = "generateMultipleVariations" /\ result.status = "returned") =>
        \A i \in 1..Len(result.suggestions) :
            /\ calls[i].status = "text"
            /\ result.suggestions[i].content = IssuedSuggestion(i).content
            /\ result.suggestions[i].hasTitle = IssuedSuggestion(i).hasTitle
            /\ result.suggestions[i].title = IssuedSuggestion(i).title
            /\ result.suggestions[i].confidence.nan = IssuedSuggestion(i).confidence.nan
            /\ result.suggestions[i].confidence.v * 10
                   = IssuedSuggestion(i).confidence.v * (10 - (i - 1))

\* a batch of 3 returned although the last issued call ended first, with
\* different texts in the first and the last call
C1_Witness ==
    /\ op.kind = "generateMultipleVariations"
    /\ result.status = "returned"
    /\ op.count = 3
    /\ completed = <<3, 1, 2>>
    /\ calls[1].text # calls[3].text
    /\ ~result.suggestions[3].confidence.nan
    /\ result.suggestions[3].confidence.v * 10 = calculateConfidence(
           result.suggestions[3].content, op.request).v * 8

\* C2: once one of the calls of a batch has failed, the caller of
\* generateMultipleVariations never gets a list, not even a shorter one: what
\* it observes is a failure without suggestions.
C2_AllOrNothing ==
    (/\ op.kind = "generateMultipleVariations"
     /\ \E i \in 1..Len(calls) : calls[i].status \in {"error", "noCandidates"}
     /\ Finished)
        => (result.status = "failed" /\ result.suggestions = <<>>)

\* a batch of 3 failed although two calls succeeded and the failing call
\* ended last
C2_Witness ==
    /\ op.kind = "generateMultipleVariations"
    /\ op.count = 3
    /\ completed = <<1, 2, 3>>
    /\ calls[1].status = "text"
    /\ calls[2].status = "text"
    /\ calls[3].status = "error"
    /\ result.status = "failed"

\* C3: generateHashtags never fails: once its provider call is over it has
\* returned, and it has returned the empty sequence if the call was rejected
\* or carried no candidate.
C3_HashtagsNeverFail ==
    (op.kind = "generateHashtags" /\ calls[1].status # "pending") =>
        /\ result.status = "returned"
        /\ (calls[1].status \in {"error", "noCandidates"} => result.hashtags = <<>>)

\* generateHashtags returned [] after a rejected provider call
C3_Witness ==
    /\ op.kind = "generateHashtags"
    /\ calls[1].status = "error"
    /\ result.status = "returned"
    /\ result.hashtags = <<>>

\* C4: generateContent fails towards its caller, and returns no suggestion,
\* whenever its provider call is rejected or answers with no candidate.
C4_ContentFailureSurfaces ==
    (op.kind = "generateContent" /\ calls[1].status \in {"error", "noCandidates"}) =>
        (result.status = "failed" /\ result.suggestions = <<>>)

\* generateContent failed on an empty candidates list
C4_Witness ==
    /\ op.kind = "generateContent"
    /\ calls[1].status = "noCandidates"
    /\ result.status = "failed"

\* C5: every suggestion returned by generateContent, improvContent or
\* generateMultipleVariations has a content that is not empty once trimmed.
C5_ContentNonEmpty ==
    (op.kind \in ContentKinds /\ result.status = "returned") =>
        \A i \in 1..Len(result.suggestions) :
            Trim(result.suggestions[i].content) # <<>>

\* C6: every suggestion returned by generateContent, improvContent or
\* generateMultipleVariations has a confidence that is a number in [0, 1].
C6_ConfidenceInUnitInterval ==
    (op.kind \in ContentKinds /\ result.status = "returned") =>
        \A i \in 1..Len(result.suggestions) :
            /\ ~result.suggestions[i].confidence.nan
            /\ result.suggestions[i].confidence.v >= 0
            /\ result.suggestions[i].confidence.v <= Scale

\* C7: on a successful response generateHashtags returns at most count tags,
\* and no returned tag is empty, starts with '#' or has surrounding
\* whitespace.
C7_HashtagsClean ==
    (op.kind = "generateHashtags" /\ calls[1].status = "text") =>
        /\ Len(result.hashtags) <= op.count
        /\ \A i \in 1..Len(result.hashtags) :
              /\ result.hashtags[i] # <<>>
              /\ result.hashtags[i][1] # "#"
              /\ Trim(result.hashtags[i]) = result.hashtags[i]

\* the non-empty lines of a text, each trimmed
TrimmedLines(text) ==
    SelectSeq([i \in 1..Len(Split(text, "\n")) |-> Trim(Split(text, "\n")[i])],
              LAMBDA line : line # <<>>)

\* C8: the parser decides on the trimmed non-empty lines: a title is produced
\* iff there are at least 2 of them and the first is shorter than 100
\* characters and starts with an uppercase letter; then the title is that
\* line and the content is the other lines joined by line breaks; otherwise
\* the content is the whole trimmed text.
C8_ParserOnTrimmedLines ==
    (op.kind = "generateContent" /\ result.status = "returned") =>
        LET lines == TrimmedLines(calls[1].text)
            titled == /\ Len(lines) >= 2
                      /\ Len(lines[1]) < 100
                      /\ lines[1][1] = "A"
            got == result.suggestions[1]
        IN  /\ got.hasTitle = titled
            /\ (titled => (/\ got.title = lines[1]
                           /\ got.content = Join(Tail(lines), <<"\n">>)))
            /\ (~titled => got.content = Trim(calls[1].text))

\* the number of keywords of the list that occur in content, case ignored
Matched(content, keywords) ==
    Cardinality({k \in 1..Len(keywords) :
                    Includes(ToLowerCase(content), ToLowerCase(keywords[k]))})

\* C9: the keyword bonus is 0.1 times the matched fraction when keywords is
\* non-empty and nothing when keywords is absent or empty: the confidence is
\* 0.8 plus the length bonus plus that, capped at 1.
C9_KeywordBonus ==
    (op.kind = "generateContent" /\ result.status = "returned") =>
        LET got == result.suggestions[1]
            n == Len(op.request.keywords)
            bonus == IF op.request.hasKeywords /\ n > 0
                     THEN (600 * Matched(got.content, op.request.keywords)) \div n
                     ELSE 0
            sum == 4800 + LengthBonus(WordCount(got.content), op.request.length).v + bonus
        IN  got.confidence = Num(IF sum > 6000 THEN 6000 ELSE sum)

\* the number of pieces of a text cut at every single space
Pieces(content) == Cardinality({i \in 1..Len(content) : content[i] = " "}) + 1

\* C10: without keywords the confidence is 0.8, plus 0.1 exactly when
\* (short and at most 50 words) or (medium and more than 50 and at most 200
\* words) or (long and more than 200 words), the words being the pieces of
\* the content cut at single spaces; with length absent nothing is added.
C10_LengthBonus ==
    (/\ op.kind \in {"generateContent", "improvContent"}
     /\ result.status = "returned"
     /\ ~op.request.hasKeywords) =>
        LET got == result.suggestions[1]
            w == Pieces(got.content)
            fits == \/ (op.request.length = "short" /\ w <= 50)
                    \/ (op.request.length = "medium" /\ 50 < w /\ w <= 200)
                    \/ (op.request.length = "long" /\ w > 200)
        IN  got.confidence = Num(IF fits THEN 5400 ELSE 4800)

\* a 10-word content scored 0.9 for a short request
C10_Witness ==
    /\ op.kind = "generateContent"
    /\ result.status = "returned"
    /\ ~op.request.hasKeywords
    /\ op.request.length = "short"
    /\ result.suggestions[1].content = WordsText(10)
    /\ result.suggestions[1].confidence = Num(5400)

\* C11 as stated: the failure observed by the caller of generateContent or
\* generateMultipleVariations after a rejected provider call is the failure
\* the provider raised.
C11_FailureUnmodified ==
    (/\ op.kind \in {"generateContent", "generateMultipleVariations"}
     /\ result.status = "failed"
     /\ \A i \in 1..Len(calls) : calls[i].status \in {"error", "pending"})
        => result.error = ProviderError

\* C11, amended: the failure observed by the caller is a new one raised by
\* the service, with a fixed message that carries nothing of the provider's
\* failure: "Failed to generate content. Please try again." from
\* generateContent and improvContent, "Failed to generate content
\* variations." from generateMultipleVariations.
C11_FailureReplaced ==
    result.status = "failed" =>
        /\ op.kind \in {"generateContent", "improvContent"}
              => result.error = "Failed to generate content. Please try again."
        /\ op.kind = "generateMultipleVariations"
              => result.error = "Failed to generate content variations."

\* generateContent failed with the fixed message after the provider rejected
C11_Witness ==
    /\ op.kind = "generateContent"
    /\ calls[1].status = "error"
    /\ result.status = "failed"
    /\ result.error = "Failed to generate content. Please try again."
    /\ result.error # ProviderError

\* the clause of an improvement type, as one fixed text per type
FixedClause(improvementType) ==
    CASE improvementType = "engagement" -> <<"Make this content more engaging and compelling">>
      [] improvementType = "clarity" -> <<"Improve the clarity and readability of this content">>
      [] improvementType = "seo" -> <<"Optimize this content for search engines while maintaining readability">>
      [] improvementType = "tone" ->
            <<"Adjust the tone of this content to better match the ", "target audience">>

\* the clause of an improvement type: that of tone names the audience
AudienceClause(improvementType, targetAudience) ==
    IF improvementType = "tone" /\ targetAudience # <<>>
    THEN <<"Adjust the tone of this content to better match the ">> \o targetAudience
    ELSE FixedClause(improvementType)

\* what improvContent does around its request: one provider call, that of
\* generateContent for the request, and the outcome of that generateContent
ImproveDelegates ==
    /\ op.request.contentType = "post"
    /\ op.request.tone = None
    /\ op.request.length = None
    /\ ~op.request.hasKeywords
    /\ Len(calls) = 1
    /\ calls[1].prompt =
          buildSystemPrompt(op.request) \o <<"\n\n">> \o buildUserPrompt(op.request)
    /\ (calls[1].status = "pending" => result.status = "none")
    /\ (calls[1].status = "text" =>
          /\ result.status = "returned"
          /\ result.suggestions = <<parseGeneratedContent(calls[1].text, op.request)>>)
    /\ (calls[1].status \in {"error", "noCandidates"} =>
          /\ result.status = "failed"
          /\ result.error = promises[1].reason)

\* C12 as stated: improvContent makes one generateContent call for the
\* request (post, the given audience, no tone, length or keywords) whose
\* prompt is the fixed clause of improvementType, then the original content;
\* its outcome is that of the call.
C12_ImproveFixedClause ==
    op.kind = "improvContent" =>
        /\ ImproveDelegates
        /\ op.request.targetAudience = op.targetAudience
        /\ op.request.prompt =
              FixedClause(op.improvementType) \o <<":\n\n">> \o op.content

\* C12, amended: the same, the clause being fixed for engagement, clarity
\* and seo, while the clause of tone ends with the given targetAudience (with
\* "target audience" when none is given).
C12_ImproveDelegates ==
    op.kind = "improvContent" =>
        /\ ImproveDelegates
        /\ op.request.targetAudience = op.targetAudience
        /\ op.request.prompt =
              AudienceClause(op.improvementType, op.targetAudience)
              \o <<":\n\n">> \o op.content

\* improvContent for tone and an audience returned the suggestion of its one
\* call, whose request carries the audience
C12_Witness ==
    /\ op.kind = "improvContent"
    /\ op.improvementType = "tone"
    /\ op.targetAudience = <<"a">>
    /\ op.request.targetAudience = <<"a">>
    /\ Len(calls) = 1
    /\ result.status = "returned"
    /\ result.suggestions[1].content = <<"a">>

\* C14 as stated: generateMultipleVariations neither returns nor fails
\* before every provider call it issued is over.
C14_Barrier ==
    (op.kind = "generateMultipleVariations" /\ Finished) =>
        \A i \in 1..Len(calls) : calls[i].status # "pending"

\* C14, amended: generateMultipleVariations does not return before every
\* provider call it issued is over, successfully; it does not fail before
\* one of them has failed, and may then fail while others are in flight.
C14_JoinOnSuccess ==
    op.kind = "generateMultipleVariations" =>
        /\ (all.state = "fulfilled" \/ result.status = "returned") =>
              /\ Len(calls) = op.count
              /\ \A i \in 1..Len(calls) : calls[i].status = "text"
        /\ (all.state = "rejected" \/ result.status = "failed") =>
              \E i \in 1..Len(calls) : calls[i].status \in {"error", "noCandidates"}

\* a batch of 3 failed while two of its calls were still in flight
C14_Witness ==
    /\ op.kind = "generateMultipleVariations"
    /\ op.count = 3
    /\ result.status = "failed"
    /\ completed = <<2>>
    /\ calls[1].status = "pending"
    /\ calls[3].status = "pending"

\* C15: generateMultipleVariations(request, N) issues exactly N provider
\* calls, all of them before any of them is over, each for the original
\* request with " (Generate a unique variation)" appended to its prompt and
\* nothing else changed; the list it returns has exactly N suggestions.
C15_FanOut ==
    op.kind = "generateMultipleVariations" =>
        /\ Len(calls) = op.count
        /\ \A i \in 1..Len(calls) :
              calls[i].prompt =
                  buildSystemPrompt(op.request) \o <<"\n\n">>
                  \o buildUserPrompt(
                        [op.request EXCEPT
                            !.prompt = op.request.prompt
                                       \o <<" (Generate a unique variation)">>])
        /\ (result.status = "returned" => Len(result.suggestions) = op.count)

\* a batch of 3 issued 3 calls and returned 3 suggestions
C15_Witness ==
    /\ op.kind = "generateMultipleVariations"
    /\ op.count = 3
    /\ Len(calls) = 3
    /\ result.status = "returned"
    /\ Len(result.suggestions) = 3

\* C16: a generateContent call issues exactly one provider call, a single
\* user-role message whose text is the system instruction, two newlines and
\* the user instruction; it reads the text of the first candidate, and issues
\* no second call whether the first succeeds or fails.
C16_SingleCall ==
    /\ op.kind \in {"generateContent", "improvContent"} =>
          /\ Len(calls) = 1
          /\ calls[1].role = "user"
          /\ calls[1].prompt =
                buildSystemPrompt(op.request) \o <<"\n\n">> \o buildUserPrompt(op.request)
          /\ (result.status = "returned" =>
                /\ calls[1].status = "text"
                /\ result.suggestions =
                      <<parseGeneratedContent(calls[1].text, op.request)>>)
    /\ op.kind = "generateMultipleVariations" => Len(calls) = op.count

\* generateContent failed on a rejected call and issued no second call
C16_Witness ==
    /\ op.kind = "generateContent"
    /\ calls[1].status = "error"
    /\ result.status = "failed"
    /\ Len(calls) = 1

\* C17: a call issued by generateMultipleVariations that is not over can
\* end, with a text or with a failure, whatever has happened to the other
\* calls of the batch and to the batch itself: nothing aborts or skips it.
C17_NoCancellation ==
    op.kind = "generateMultipleVariations" =>
        \A i \in 1..Len(calls) :
            calls[i].status = "pending" =>
                /\ ENABLED VariationCallEnds(i, ProviderText(<<"a">>))
                /\ ENABLED VariationCallEnds(i, ProviderRejects)

\* the first call of a batch of 3 failed, the batch failed, and the two
\* other calls still ran to their end
C17_Witness ==
    /\ op.kind = "generateMultipleVariations"
    /\ op.count = 3
    /\ completed = <<1, 2, 3>>
    /\ calls[1].status = "error"
    /\ all.state = "rejected"
    /\ result.status = "failed"
    /\ calls[2].status = "text"
    /\ calls[3].status = "noCandidates"

\* C18: the confidence of a suggestion that is not decayed (that of
\* generateContent and improvContent, and the first of a batch) is a number
\* from 0.8 to 1.0.
C18_ScoreBand ==
    (/\ op.kind \in ContentKinds
     /\ result.status = "returned"
     /\ Len(result.suggestions) > 0) =>
        /\ ~result.suggestions[1].confidence.nan
        /\ result.suggestions[1].confidence.v >= 4800
        /\ result.suggestions[1].confidence.v <= 6000

\* C19: the confidence returned at index i of a batch is the scorer's value
\* times (1 - 0.1 * i) with no bound applied afterwards, and it is negative
\* for every index from 11 on.
C19_DecayUnclamped ==
    (op.kind = "generateMultipleVariations" /\ result.status = "returned") =>
        \A i \in 1..Len(result.suggestions) :
            LET scored == calculateConfidence(result.suggestions[i].content,
                                              VariationRequest(op.request))
                got == result.suggestions[i].confidence
            IN  /\ got.nan = scored.nan
                /\ got.v * 10 = scored.v * (10 - (i - 1))
                /\ (i - 1 >= 11 => (~got.nan /\ got.v < 0))

\* the system instruction a request calls for: role, tone clause if a tone
\* is given, audience clause if an audience is given, closing instruction
ExpectedSystemPrompt(request) ==
    LET role == <<contentTypeInstructions(request.contentType)>>
        tone == IF request.tone \in Tones
                THEN <<" ", toneInstructions(request.tone)>> ELSE <<>>
        audience == IF request.targetAudience # <<>>
                    THEN <<" Target audience: ">> \o request.targetAudience \o <<".">>
                    ELSE <<>>
        closing == <<" Provide high-quality, original content that is engaging and relevant.">>
    IN  role \o tone \o audience \o closing

\* the part of a prompt sent to the provider that precedes the blank line
SystemPart(prompt) == SubSeq(prompt, 1, IndexOf(prompt, "\n\n") - 1)

\* the request a call of the current operation is made for
CallRequest ==
    IF op.kind = "generateMultipleVariations" THEN VariationRequest(op.request)
    ELSE op.request

\* C20: the system instruction sent for a request is the role description of
\* its contentType, then the tone clause iff a tone is given, then the
\* audience clause iff an audience is given, then the closing instruction.
C20_SystemPrompt ==
    op.kind \in ContentKinds =>
        \A i \in 1..Len(calls) :
            /\ SystemPart(calls[i].prompt) = ExpectedSystemPrompt(CallRequest)
            /\ calls[i].prompt[1] \in
                  {contentTypeInstructions(contentType) : contentType \in ContentTypes}
            /\ SystemPart(calls[i].prompt)[Len(SystemPart(calls[i].prompt))] =
                  " Provide high-quality, original content that is engaging and relevant."

\* a call for an email request with a tone and an audience: the role, the
\* tone clause, the audience clause and the closing instruction in a row
C20_Witness ==
    /\ op.kind = "generateContent"
    /\ op.request.contentType = "email"
    /\ op.request.tone = "casual"
    /\ op.request.targetAudience = <<"a">>
    /\ Len(calls) = 1
    /\ SubSeq(calls[1].prompt, 1, 7) =
          <<"You are an email marketing specialist. Create compelling email content that drives opens, clicks, and conversions.",
            " ", "Use a casual, conversational tone.",
            " Target audience: ", "a", ".",
            " Provide high-quality, original content that is engaging and relevant.">>

\* the part of a prompt sent to the provider that follows the blank line
UserPart(prompt) == SubSeq(prompt, IndexOf(prompt, "\n\n") + 1, Len(prompt))

\* the keyword clause of a user instruction and the keywords it lists, read
\* back by cutting the clause at its separators
ListedKeywords(clause) == Split(SubSeq(clause, 2, Len(clause) - 1), ", ")

\* C21: the user instruction sent for a request is "Create {contentType}
\* content based on: {prompt}", then the length clause of its length iff a
\* length is given, then the keyword clause iff keywords is non-empty; the
\* clause lists every keyword in the given order, separated by commas, and an
\* absent or empty keywords list adds nothing.
C21_UserPrompt ==
    op.kind \in ContentKinds =>
        \A i \in 1..Len(calls) :
            LET user == UserPart(calls[i].prompt)
                opening == <<"Create ", CallRequest.contentType, " content based on: ">>
                               \o CallRequest.prompt
                length == IF CallRequest.length \in Lengths
                          THEN <<" Length: ", lengthInstructions(CallRequest.length), ".">>
                          ELSE <<>>
                clause == SubSeq(user, Len(opening) + Len(length) + 1, Len(user))
            IN  /\ SubSeq(user, 1, Len(opening)) = opening
                /\ SubSeq(user, Len(opening) + 1, Len(opening) + Len(length)) = length
                /\ IF CallRequest.hasKeywords /\ CallRequest.keywords # <<>>
                   THEN /\ clause[1] = " Include these keywords naturally: "
                        /\ clause[Len(clause)] = "."
                        /\ ListedKeywords(clause) = CallRequest.keywords
                   ELSE clause = <<>>

\* a call for a short post with four keywords: the opening, the length
\* clause and the keyword clause naming the four keywords in their order
C21_Witness ==
    /\ op.kind = "generateContent"
    /\ op.request.length = "short"
    /\ op.request.keywords = FourKeywords
    /\ Len(calls) = 1
    /\ UserPart(calls[1].prompt) =
          <<"Create ", "post", " content based on: ", "a",
            " Length: ", "Keep it concise (1-2 sentences)", ".",
            " Include these keywords naturally: ",
            "A", ", ", "a", "a", ", ", "a", "a", ", ", "A", ".">>

\* the fields of a ContentSuggestion that parseGeneratedContent fills
SuggestionFields == {"content", "hasTitle", "title", "confidence"}

\* C22: no suggestion returned by generateContent, generateMultipleVariations
\* or improvContent carries a hashtags or an alternatives field, and these
\* operations return no hashtags; the decay of a batch leaves the title and
\* the content of every suggestion as the parser gave them.
C22_SuggestionFrame ==
    (op.kind \in ContentKinds /\ Finished) =>
        /\ result.hashtags = <<>>
        /\ \A i \in 1..Len(result.suggestions) :
              /\ "hashtags" \notin DOMAIN result.suggestions[i]
              /\ "alternatives" \notin DOMAIN result.suggestions[i]
              /\ DOMAIN result.suggestions[i] = SuggestionFields
              /\ LET parsed == parseGeneratedContent(calls[i].text, CallRequest)
                 IN  /\ result.suggestions[i].content = parsed.content
                     /\ result.suggestions[i].hasTitle = parsed.hasTitle
                     /\ result.suggestions[i].title = parsed.title

\* a batch of 3 returned whose last suggestion kept its title and content
\* while its confidence was decayed below the scorer's value
C22_Witness ==
    /\ op.kind = "generateMultipleVariations"
    /\ result.status = "returned"
    /\ Len(result.suggestions) = 3
    /\ result.suggestions[3].hasTitle
    /\ result.suggestions[3].title = <<"A">>
    /\ result.suggestions[3].content = <<"a">>
    /\ ~result.suggestions[3].confidence.nan
    /\ result.suggestions[3].confidence.v <
          calculateConfidence(<<"a">>, VariationRequest(op.request)).v

\* the request the service is working for, or the one being answered
ServedRequest ==
    IF \E handler \in InFlight : handler.pc = "service"
    THEN CHOOSE handler \in InFlight : handler.pc = "service"
    ELSE response

GenericMessages ==
    {"Failed to generate content. Please try again.",
     "Failed to generate content variations. Please try again.",
     "Failed to improve content. Please try again.",
     "Failed to generate hashtags. Please try again."}

\* C23: in every content route no provider call is issued unless the request
\* carries a user id and its body passes the schema of the route: without a
\* user id the answer is 401 whatever the body, an invalid body is answered
\* 400, and a failure of the service call is answered 500 with one of the
\* fixed messages of the routes, which carries nothing of the provider.
C23_RoutesGuardService ==
    /\ (calls # <<>> /\ ServedRequest # NoResponse) =>
          /\ ServedRequest.route \in AiRoutes
          /\ ServedRequest.userId \in UserIds
          /\ AiRouteValidates(ServedRequest.route, ServedRequest.body)
    /\ response.route \in AiRoutes =>
          /\ response.userId = None => (response.status = 401 /\ calls = <<>>)
          /\ (response.userId # None
                /\ ~AiRouteValidates(response.route, response.body)) =>
                    (response.status = 400 /\ calls = <<>>)
          /\ response.status \in {401, 400} => response.data = NoData
          /\ (calls # <<>> /\ result.status = "failed") =>
                /\ response.status = 500
                /\ response.message \in GenericMessages
                /\ response.message # ProviderError
                /\ response.data = NoData
          /\ response.status = 500 => result.status = "failed"
          /\ response.status = 200 => result.status = "returned"

\* POST /api/ai/variations by a user with a valid body, answered 500 with the
\* message of the route after the provider rejected one of the three calls
C23_Witness ==
    /\ response.route = "ai/variations"
    /\ response.userId = "u1"
    /\ response.body = GenerateBody
    /\ Len(calls) = 3
    /\ \E i \in 1..3 : calls[i].status = "error"
    /\ response.status = 500
    /\ response.message = "Failed to generate content variations. Please try again."

\* a request without user id and with an invalid body at once: answered 401
C23_WitnessUnauthenticated ==
    /\ response.route = "posts/generate"
    /\ response.userId = None
    /\ response.body = [GenerateBody EXCEPT !.prompt = NineChars]
    /\ response.status = 401
    /\ calls = <<>>

\* C25: registration keeps the email unique: no two user documents have the
\* same email, and a registration answered 201 has created the only user of
\* its email.
C25_EmailUnique ==
    /\ \A i, j \in 1..Len(users) : users[i].email = users[j].email => i = j
    /\ (response.route = "auth/register" /\ response.status = 201) =>
          UsersByEmail(response.body.email) = {response.data.token.userId}

\* the conditions under which POST /login may issue a token for a request
MayLogin(body, id) ==
    /\ id \in 1..Len(users)
    /\ users[id].email = body.email
    /\ users[id].password = Hash(body.password)
    /\ users[id].isActive

\* C27 as stated: POST /login issues a token only for an existing, active
\* user whose password matches, and every other request is answered 401
\* without a token.
C27_LoginOr401 ==
    response.route = "auth/login" =>
        IF response.status = 200
        THEN /\ MayLogin(response.body, response.data.token.userId)
             /\ response.data.token = Token(response.id)
        ELSE response.status = 401 /\ response.data = NoData

\* C27 amended: POST /login issues a token only for an existing, active user
\* whose password matches; a body that fails the login schema is answered 400
\* and every other request 401, both without a token; an unknown email and a
\* wrong password are answered with the same status and message.
C27_LoginOr401Or400 ==
    response.route = "auth/login" =>
        /\ IF response.status = 200
           THEN /\ MayLogin(response.body, response.data.token.userId)
                /\ response.data.token = Token(response.id)
           ELSE /\ response.data = NoData
                /\ response.status = (IF loginSchema(response.body) THEN 401 ELSE 400)
        /\ (~loginSchema(response.body)) => response.status = 400
        /\ (loginSchema(response.body) /\ UsersByEmail(response.body.email) = {}) =>
              (response.status = 401 /\ response.message = "Invalid email or password")
        /\ (loginSchema(response.body) /\ response.id # 0
              /\ users[response.id].password # Hash(response.body.password)) =>
              (response.status = 401 /\ response.message = "Invalid email or password")

\* a user registered with EmailA and PasswordP has logged in and holds the
\* token of its document
C27_Witness ==
    /\ response.route = "auth/login"
    /\ response.body = LoginBody
    /\ response.status = 200
    /\ response.data.token.userId = 2
    /\ users[2] = User(EmailA, Hash(PasswordP), TRUE)

\* the deactivated account with its right password: 401 and no token
C27_WitnessDeactivated ==
    /\ response.route = "auth/login"
    /\ response.body = [LoginBody EXCEPT !.email = EmailD]
    /\ response.id = 1
    /\ response.status = 401
    /\ response.message = "Account is deactivated. Please contact support."
    /\ response.data = NoData


\* the response answers a request to a by-id route of the store
ByIdResponse == response.route \in Collections /\ response.pc \in {"get", "update", "delete"}

\* the document a by-id response is about was created
Created == response.id \in 1..Len(Documents(response.route))

\* every document was written by its owner only
WrittenByOwner ==
    \A collection \in Collections : \A id \in 1..Len(Documents(collection)) :
        Documents(collection)[id].writers \subseteq {Documents(collection)[id].userId}

\* the answer to a by-id request of a user who is not the owner of the
\* document, when the body is not looked at
AnswerToOther ==
    IF ~Authenticated(response.userId) THEN 401
    ELSE IF Created /\ Documents(response.route)[response.id].exists THEN 403
    ELSE 404

\* the by-id request was made by another than the owner of the document
ByOther ==
    \/ ~Authenticated(response.userId)
    \/ ~Created
    \/ Documents(response.route)[response.id].userId # response.userId

\* C24 as stated: a campaign or post is read, updated or deleted through its
\* by-id routes by its owner only: a request by anyone else is answered 403
\* (404 when the resource does not exist, 401 without userId) and leaves the
\* stored campaigns and posts unchanged.
C24_OwnerOnly ==
    /\ WrittenByOwner
    /\ ByIdResponse =>
          /\ ByOther => response.status = AnswerToOther
          /\ response.status = 200 => ~ByOther

\* C24: a campaign or post is read, updated or deleted through its by-id
\* routes by its owner only: a request by anyone else leaves the stored
\* campaigns and posts unchanged and is answered 401 without userId, else 400
\* if it is a PUT whose body fails the update schema, else 404 if the
\* resource does not exist, else 403.
C24_OwnerOnlyOr400 ==
    /\ WrittenByOwner
    /\ ByIdResponse =>
          /\ ByOther =>
                response.status =
                    IF /\ Authenticated(response.userId)
                       /\ response.pc = "update"
                       /\ ~UpdateValidates(response.route, response.body)
                    THEN 400
                    ELSE AnswerToOther
          /\ response.status = 200 => ~ByOther

\* u2 is answered 403 to its valid PUT of a campaign of u1, which u1 alone
\* has written
C24_Witness ==
    /\ ByIdResponse
    /\ response.pc = "update"
    /\ response.route = "campaigns"
    /\ response.userId = "u2"
    /\ UpdateValidates("campaigns", response.body)
    /\ response.status = 403
    /\ campaigns[response.id].userId = "u1"
    /\ campaigns[response.id].writers = {"u1"}

\* u2 is answered 400 to a PUT of a campaign of u1 that asks for the userId
\* to become u2: the campaign stays u1's
C24_Witness400 ==
    /\ ByIdResponse
    /\ response.pc = "update"
    /\ response.route = "campaigns"
    /\ response.userId = "u2"
    /\ Has(response.body, "userId")
    /\ response.status = 400
    /\ Created
    /\ campaigns[response.id].exists
    /\ campaigns[response.id].userId = "u1"


\* every stored post lies under a campaign of its own user, and every
\* document still has the userId of the user who created it
PostsUnderOwnCampaign ==
    /\ \A id \in 1..Len(posts) :
          /\ posts[id].campaignId \in 1..Len(campaigns)
          /\ campaigns[posts[id].campaignId].userId = posts[id].userId
          /\ posts[id].userId \in posts[id].writers
    /\ \A id \in 1..Len(campaigns) : campaigns[id].userId \in campaigns[id].writers

\* the response answers a POST /api/posts
CreatePostResponse == response.route = "posts" /\ response.pc = "createPost"

\* a post was created only for a campaign that existed and was the
\* requester's when the ownership was tested, and it has the requester's
\* userId and the campaignId asked for
CreatedUnderOwnCampaign ==
    (CreatePostResponse /\ response.status = 201) =>
        /\ response.found.exists
        /\ response.found.userId = response.userId
        /\ response.id \in 1..Len(posts)
        /\ posts[response.id].userId = response.userId
        /\ posts[response.id].campaignId = response.body.campaignId

\* an update answered 200 had neither userId nor campaignId among its keys
UpdatesKeepOwner ==
    (ByIdResponse /\ response.pc = "update" /\ response.status = 200) =>
        /\ ~Has(response.body, "userId")
        /\ ~Has(response.body, "campaignId")

\* POST /api/posts is refused: the campaign asked for does not exist or is
\* not the requester's
Refused ==
    /\ CreatePostResponse
    /\ response.status # 201
    /\ ~OwnsCampaign(GetById("campaigns", response.body.campaignId), response.userId)

\* C26 as stated: a post is created only under a campaign that exists at the
\* time of the ownership check and is owned by the requesting user; otherwise
\* the request is answered 403 and no post is stored. Every stored post has
\* the userId of its creator, and no update route can change the userId or
\* the campaignId of a post or the userId of a campaign.
C26_PostUnderOwnCampaign ==
    /\ PostsUnderOwnCampaign
    /\ CreatedUnderOwnCampaign
    /\ UpdatesKeepOwner
    /\ Refused => response.status = 403

\* C26: a post is created only under a campaign that exists at the time of
\* the ownership check and is owned by the requesting user; otherwise no post
\* is stored and the request is answered 401 without userId, else 400 if the
\* body fails the post schema, else 403. Every stored post has the userId of
\* its creator, and no update route can change the userId or the campaignId
\* of a post or the userId of a campaign.
C26_PostUnderOwnCampaignOr40x ==
    /\ PostsUnderOwnCampaign
    /\ CreatedUnderOwnCampaign
    /\ UpdatesKeepOwner
    /\ Refused =>
          response.status =
              IF ~Authenticated(response.userId) THEN 401
              ELSE IF ~postSchema(response.body) THEN 400
              ELSE 403

\* a post of u1 is stored under a campaign of u1 that was deleted between
\* the ownership test and the add
C26_Witness ==
    /\ CreatePostResponse
    /\ response.status = 201
    /\ response.userId = "u1"
    /\ response.found.exists
    /\ posts[response.id].exists
    /\ ~campaigns[posts[response.id].campaignId].exists

\* u2 asks for a post under a campaign of u1 with a valid body and is
\* answered 403: no post is stored
C26_WitnessRefused ==
    /\ Refused
    /\ response.userId = "u2"
    /\ postSchema(response.body)
    /\ response.found.exists
    /\ response.found.userId = "u1"
    /\ response.status = 403
    /\ posts = <<>>

====
